---- MODULE Spec2Model ----
(***************************************************************************)
(* PiPotter: wand tracking, trace accumulation and spell dispatch.         *)
(*                                                                         *)
(* Time is counted in whole seconds: every time.time() call returns the    *)
(* clock `now`, which the Tick/sleep steps advance.  KeyPoint coordinates  *)
(* (floats in the source) are counted in half pixels, so that int(...)     *)
(* truncation is visible: PxInt(c) is the pixel column/row int(c).         *)
(* An image mask is the set of line segments <<pt1, pt2>> drawn onto it    *)
(* (pixel coordinates); the all-zero mask is the empty set.                *)
(***************************************************************************)
EXTENDS Integers, Sequences, FiniteSets, TLC

(* ------------------------------ bounds --------------------------------- *)
\* last clock value the blob-detector runs explore
MaxTime == 5

\* last clock value the controller runs explore
MaxCtlTime == 22
\* longest time one pass of the controller loop takes (its sleep included)
MaxSleep == 2
\* number of labels in the classifier's vocabulary (runs of _process_sigil)
NumLabels == 3
\* most failed reads of one get_valid_frame call that are followed after
\* stop_event was set
MaxRetries == 2
\* number of image objects the streaming runs allocate
MaxObjects == 6
\* most lines a SpellSigil history holds in the runs of add and get_box
MaxHistory == 2
\* most frames of a looped video file, and number of read() calls made on it
MaxFrames == 5
MaxReads == 24
\* commands in a ServoMotor configuration, and run() calls on one ServoMotor
MaxCommands == 3
MaxRuns == 2
\* seconds a run on a SpellsContainer lasts
MaxContainerTime == 7
\* effects an EffectContainer is given
MaxEffects == 3
\* points accepted since the last _accio_spell call that are counted
MaxNewPoints == 7
\* frames the capture thread of a PiCameraCV takes in a run
MaxCaptured == 6

(* ------------------------- program constants --------------------------- *)
\* detector_blobs.py: WandDetector.__init__ defaults
max_trace_speed == 550
trace_buffer_size == 40
max_trace_duration == 2

\* detector_circles.py: WandDetector class attributes, check_trace_validity default
POINTS_BUFFER_SIZE == 20
MAX_TRACE_SPEED == 250
max_time == 2

\* core/config.py: PIPOTTER_THRESHOLD_TRIGGER (0.49), in percent
spell_threshold == 49

None == "None"

\* None in a field that holds a number or an object id
NullRef == 0 - 1

\* settings["PIPOTTER_NO_SPELL_LABEL"]
NO_SPELL_LABEL == "background"

\* labels.txt of the classifier, in file order, and the probabilities (percent)
\* a prediction can carry
Labels == <<"lumos", "nox", "alohomora", "incendio">>
Probabilities == {10, 48, 49, 60}

\* the spells of the EffectFactory's configuration file
Spells == {"lumos", "alohomora", "pipotter_ready"}

\* detector_circles.py and detector_fast.py: margin of the cropped sigil
CROPPED_IMG_MARGIN == 10

\* detector_fast.py: WandDetector.POINTS_BUFFER_SIZE
FAST_POINTS_BUFFER_SIZE == 40

\* lengths of tracePoints, elapsed times and numbers of keypoints of the last
\* frame that get_a_spell_maybe is run on
TraceLengths == {0, 7, 14, 15, 35}
ElapsedTimes == {1, 3}
KeypointCounts == {0, 1}

\* least and greatest x and y of the points of a trace (pixels, in the frame)
CornerXs == {0, 320, 640}
CornerYs == {0, 480}

\* wand/spellscontainer.py: SpellSigil.__init__ default
pixels_margin == 10

\* media/video_source/raspi.py: default resolution of the camera frames
frame_width == 640
frame_height == 480

\* x and y values SpellSigil.add can be given: negative, inside the frame and
\* beyond the frame
XCoordinates == {0 - 10, 3, 900}
YCoordinates == {0 - 20, 30, 500}

\* coordinates CropRectangle.update is given (optical-flow points, which can
\* be negative)
CropCoordinates == {0 - 3, 0, 5, 10}

\* test/sfx/test_servomotor_effect.py: "gpio_pin": 18, and the value of GPIO.BCM
gpio_pin == 18
BCM == 11

\* the commands of a ServoMotor configuration: <<command, payload angle>>
ConfigCommands == {<<"set_angle", 90>>, <<"set_angle", 45>>, <<"set_angle", 180>>,
                   <<"stop", 0>>}

\* test/core/test_spell.py: SpellsContainer(expiration_time=5)
expiration_time == 5

\* keys and items given to SpellsContainer.__setitem__
ContainerKeys == {"spell1", "spell2"}
ContainerItems == {<<10, 20, 30, 40>>}

\* the Effect objects an EffectContainer is given: two whose run() returns and
\* one whose run() raises
Effects == {"mock_effect1", "mock_effect2", "failing_effect"}

\* media/video_source/raspi.py: PiCameraCV.__init__ default
queue_size == 2

\* KeyPoint.pt values a frame of the controller runs can show (half pixels):
\* (0,0) and (1000,0)
CircleKeypoints == {<<0, 0>>, <<2000, 0>>}

\* KeyPoint.pt values a frame of the blob runs can show (half pixels):
\* (0,0), (550,0) and (551.5,0)
BlobKeypoints == {<<0, 0>>, <<1100, 0>>, <<1103, 0>>}

VARIABLES
    now,                          \* the wall clock read by time.time()
    \* ---- blob detector (detector_blobs.WandDetector) ----
    wand_tip_movement,            \* deque of <<keypoint, timestamp>>
    previous_wand_tip,            \* KeyPoint or None
    last_keypoint_time,
    last_detection_time,
    blob_tracing_frame,           \* wand_move_tracing_frame of the blob detector
    blob_call,                    \* record of the last call made on the blob detector
    \* ---- circles detector (detector_circles.WandDetector) ----
    tracePoints,                  \* list of accepted KeyPoints
    blobKeypoints,                \* keypoints of the last frame given to detect_wand
    last_keypoint_int_time,
    wand_move_tracing_frame,
    trace_start_time,             \* history: when tracePoints last became non-empty
    circle_call,                  \* record of the last call made on the circles detector
    \* ---- controller (PiPotterController.run) ----
    pc,                           \* position of the pipeline thread
    maybe_a_spell,                \* image returned by get_a_spell_maybe (drawn segments)
    spell_name,                   \* result of _process_sigil
    stop_event,
    video_end_calls,              \* number of video.end() calls
    raised,                       \* exception that left run(), or "none"
    effect_running,               \* an EffectContainer.run() call is in progress
    stopped_retries,              \* history: failed reads of get_valid_frame made
                                  \* after stop_event was set
    dispatch,                     \* history: "classified" from _process_sigil until
                                  \* the detector is reset, then "reset" until the sleep
    new_points,                   \* history: points accepted into tracePoints since the
                                  \* last _accio_spell call (NullRef before the first)
    reset_done,                   \* history: reset() has run since that call began
                                  \* (FALSE before the first call)
    \* ---- _process_sigil on its own ----
    predictions,                  \* sequence of <<label, probability>>
    result,                       \* label returned for `predictions`
    \* ---- published images and the streaming generators ----
    heap,                         \* image objects: id -> number of in-place writes
    latest_wand_frame,            \* wand_detector.latest_wand_frame (object id)
    spell_frame,                  \* controller.spell_frame (object id)
    combined_frame,               \* local of superimpose_trace_and_debug_info
    stream_pc,                    \* position of the pipeline thread
    video_gen,                    \* video_frame_generator: position, object encoded
    spell_gen,                    \* spell_frame_generator: position, object encoded
    published_mutated,            \* history: an object was written while a field held it
    \* ---- SpellSigil (wand/spellscontainer.py) ----
    history,                      \* list of [left, top, right, bottom]
    box,                          \* what the last get_box() call returned
    \* ---- get_a_spell_maybe of the circles and fast detectors, on its own ----
    spell_image,                  \* the last call: its detector, its inputs and the
                                  \* shape of the image it returned
    \* ---- VideoLooper (media/video_source/looper.py) ----
    total_frames,                 \* 0 while no VideoLooper is constructed
    frame_counter,
    video_position,               \* index of the frame self.video reads next
    read_result,                  \* what the last read() returned: ret, frame index
    reads,                        \* history: number of read() calls made
    \* ---- PiCameraCV (media/video_source/raspi.py) ----
    frame_queue,                  \* Queue(maxsize=queue_size) of frame numbers, oldest first
    cam_pc,                       \* position of the capture thread in update()
    gray_frame,                   \* local of update(): the frame it converted
    captured,                     \* history: number of frames captured so far
    stopped,                      \* self.stopped
    cam_read,                     \* what the last read() returned, and the frame produced last
    \* ---- EffectContainer (sfx/effect_container.py) ----
    queue,                        \* EffectContainer.queue: list of effects
    effect_run,                   \* the last run(): the queue it ran on, the effects called, its result
    \* ---- SpellsContainer (wand/spellscontainer.py) ----
    sigils,                       \* SpellsContainer.sigils: key -> history of its SpellSigil
    last_update_time,             \* None (NullRef) or the time of the last __setitem__
    container_call,               \* the last call made on the container and its result
    updated_since_reset,          \* history: a __setitem__ was made since creation or reset
    last_setitem_time,            \* history: when the last __setitem__ was made
    \* ---- ServoMotor (sfx/servomotor/effect.py) ----
    commands,                     \* ServoMotor.commands: list of angles of the set_angle commands
    pwm,                          \* ServoMotor.pwm: None or the started GPIO.PWM
    gpio_calls,                   \* history: GPIO and PWM calls made since the last construction
    run_calls,                    \* history: GPIO and PWM calls made by the last run()
    runs,                         \* history: run() calls made; NullRef while no ServoMotor is constructed
    \* ---- CropRectangle (wand/detector.py) ----
    cropbox,                      \* CropRectangle: top, bottom, left, right (False is 0)
    cropbox_updated               \* history: update() was called on it

blobVars == <<wand_tip_movement, previous_wand_tip, last_keypoint_time,
              last_detection_time, blob_tracing_frame, blob_call>>

circleVars == <<tracePoints, blobKeypoints, last_keypoint_int_time,
                wand_move_tracing_frame, trace_start_time>>

ctlVars == <<pc, maybe_a_spell, spell_name, stop_event, video_end_calls,
             raised, effect_running, stopped_retries, dispatch, new_points,
             reset_done>>

sigilVars == <<predictions, result>>

streamVars == <<heap, latest_wand_frame, spell_frame, combined_frame, stream_pc,
                video_gen, spell_gen, published_mutated>>

\* history of the calls made directly on the circles detector
detVars == <<circle_call>>

spellSigilVars == <<history, box>>

cropVars == <<spell_image>>

looperVars == <<total_frames, frame_counter, video_position, read_result, reads>>

cameraVars == <<frame_queue, cam_pc, gray_frame, captured, stopped, cam_read>>

effectVars == <<queue, effect_run>>

containerVars == <<sigils, last_update_time, container_call, updated_since_reset, last_setitem_time>>

servoVars == <<commands, pwm, gpio_calls, run_calls, runs>>

cropboxVars == <<cropbox, cropbox_updated>>

\* the variables of the runs on single functions and of the streaming runs
funVars == <<sigilVars, streamVars, detVars, spellSigilVars, cropVars,
             looperVars,
    cameraVars,
    effectVars,
    containerVars,
    servoVars,
    cropboxVars>>

vars == <<now, blobVars, circleVars, ctlVars, funVars>>

(* ------------------------------ helpers -------------------------------- *)
\* int(c) of a non-negative coordinate given in half pixels
PxInt(c) == c \div 2

\* (int(pt[0]), int(pt[1]))
PxPoint(pt) == <<PxInt(pt[1]), PxInt(pt[2])>>

\* squared Euclidean distance, in half pixels squared
Dist2(p, q) == (p[1] - q[1]) * (p[1] - q[1]) + (p[2] - q[2]) * (p[2] - q[2])

\* `distance / elapsed_time < limit` with numpy floats (blob detector):
\* elapsed_time = 0 gives inf or nan, and the comparison is False.
\* distance is sqrt(d2)/2 pixels, elapsed is in seconds.
BlobSpeedWithinLimit(d2, elapsed, limit) ==
    /\ elapsed > 0
    /\ d2 < (2 * limit * elapsed) * (2 * limit * elapsed)

\* deque(maxlen=n).append(x)
DequeAppend(dq, x, n) ==
    IF Len(dq) >= n THEN Append(Tail(dq), x) ELSE Append(dq, x)

\* _remove_old_points: popleft while the oldest entry is older than the window
RECURSIVE RemoveOldPoints(_, _)
RemoveOldPoints(dq, current_time) ==
    IF dq # <<>> /\ (current_time - Head(dq)[2]) > max_trace_duration
    THEN RemoveOldPoints(Tail(dq), current_time)
    ELSE dq

\* _update_trace_buffer
UpdateTraceBuffer(dq, keypoint, current_time) ==
    RemoveOldPoints(DequeAppend(dq, <<keypoint, current_time>>, trace_buffer_size),
                    current_time)

\* the mask after _update_trace: a line from the previous tip to the keypoint,
\* if there is a previous tip
UpdateTraceMask(mask, prev, keypoint) ==
    IF prev # None THEN mask \cup {<<PxPoint(prev), PxPoint(keypoint)>>} ELSE mask

\* a timeout test that already fires at the end of the window
BlobTimedOut_AtWindowEnd(current_time, last_detection) ==
    (current_time - last_detection) >= max_trace_duration

\* the no-keypoint timeout test of detect_wand
BlobTimedOut(current_time, last_detection) ==
    (current_time - last_detection) > max_trace_duration

(* --------------------------- blob detector ----------------------------- *)
BlobInit ==
    /\ wand_tip_movement = <<>>
    /\ previous_wand_tip = None
    /\ last_keypoint_time = 0
    /\ last_detection_time = 0
    /\ blob_tracing_frame = {}
    /\ blob_call = [op |-> "init", time |-> 0, keypoint |-> None, prev |-> None,
                    elapsed |-> 0, outcome |-> "none"]

\* time passes between calls
BlobTick ==
    /\ now < MaxTime
    /\ now' = now + 1
    /\ UNCHANGED <<blobVars, circleVars, ctlVars, funVars>>

\* detect_wand on a frame whose first keypoint is kp: what it does to the detector
BlobDetectKeypointCall(kp) ==
    LET current_time == now
        elapsed_time == current_time - last_keypoint_time
        accepted ==
            IF previous_wand_tip # None
            THEN BlobSpeedWithinLimit(Dist2(previous_wand_tip, kp), elapsed_time,
                                      max_trace_speed)
            ELSE TRUE
    IN  /\ last_detection_time' = current_time
        /\ IF accepted
           THEN /\ wand_tip_movement' =
                       UpdateTraceBuffer(wand_tip_movement, kp, current_time)
                /\ blob_tracing_frame' =
                       UpdateTraceMask(blob_tracing_frame, previous_wand_tip, kp)
           ELSE UNCHANGED <<wand_tip_movement, blob_tracing_frame>>
        /\ previous_wand_tip' = kp
        /\ last_keypoint_time' = current_time
        /\ blob_call' = [op |-> "detect_wand", time |-> current_time,
                         keypoint |-> kp, prev |-> previous_wand_tip,
                         elapsed |-> elapsed_time,
                         outcome |-> IF previous_wand_tip = None THEN "first"
                                     ELSE IF accepted THEN "accepted"
                                     ELSE "rejected"]

\* detect_wand on a frame whose first keypoint is kp
BlobDetectKeypoint(kp) ==
    /\ BlobDetectKeypointCall(kp)
    /\ UNCHANGED <<now, circleVars, ctlVars, funVars>>

\* detect_wand on a frame without keypoints: what it does to the detector
BlobDetectNothingCall ==
    LET current_time == now
        timeout == BlobTimedOut(current_time, last_detection_time)
    IN  /\ IF timeout
           THEN \* self.reset()
                /\ wand_tip_movement' = <<>>
                /\ previous_wand_tip' = None
                /\ blob_tracing_frame' = {}
                /\ last_detection_time' = now
           ELSE UNCHANGED <<wand_tip_movement, previous_wand_tip,
                            blob_tracing_frame, last_detection_time>>
        /\ blob_call' = [op |-> "detect_wand", time |-> current_time,
                         keypoint |-> None, prev |-> previous_wand_tip,
                         elapsed |-> current_time - last_keypoint_time,
                         outcome |-> IF timeout THEN "timeout_reset" ELSE "no_keypoint"]
        /\ UNCHANGED last_keypoint_time

\* detect_wand on a frame without keypoints
BlobDetectNothing ==
    /\ BlobDetectNothingCall
    /\ UNCHANGED <<now, circleVars, ctlVars, funVars>>

BlobDetectWand ==
    \/ \E kp \in BlobKeypoints : BlobDetectKeypoint(kp)
    \/ BlobDetectNothing

\* reset(): what it does to the detector
BlobResetCall ==
    /\ wand_tip_movement' = <<>>
    /\ previous_wand_tip' = None
    /\ blob_tracing_frame' = {}
    /\ last_detection_time' = now
    /\ blob_call' = [op |-> "reset", time |-> now, keypoint |-> None,
                     prev |-> previous_wand_tip, elapsed |-> 0, outcome |-> "none"]
    /\ UNCHANGED last_keypoint_time

\* reset()
BlobReset ==
    /\ BlobResetCall
    /\ UNCHANGED <<now, circleVars, ctlVars, funVars>>

BlobNext == BlobTick \/ BlobDetectWand \/ BlobReset

(* -------------------------- circles detector --------------------------- *)
\* `speed < self.MAX_TRACE_SPEED` of the circles detector, for elapsed > 0
\* (distance is sqrt(d2)/2 pixels, elapsed is in seconds)
CircleSpeedWithinLimit(d2, elapsed) ==
    d2 < (2 * MAX_TRACE_SPEED * elapsed) * (2 * MAX_TRACE_SPEED * elapsed)

\* the length that makes a trace valid whatever its age
LongEnough(trace_length) == trace_length >= POINTS_BUFFER_SIZE - 5

\* a validity test that also needs the trace to be recent
TraceIsValid_AlwaysTimed(trace_length, elapsed) ==
    elapsed < max_time /\ trace_length > (POINTS_BUFFER_SIZE \div 3)

\* the two validity criteria of check_trace_validity
TraceIsValid(trace_length, elapsed) ==
    \/ LongEnough(trace_length)
    \/ elapsed < max_time /\ trace_length > (POINTS_BUFFER_SIZE \div 3)

CircleInit ==
    /\ tracePoints = <<>>
    /\ blobKeypoints = <<>>
    /\ last_keypoint_int_time = 0
    /\ wand_move_tracing_frame = {}
    /\ trace_start_time = 0
    /\ circle_call = [op |-> "init", before |-> "init", elapsed |-> 0,
                      outcome |-> "returned", was_empty |-> TRUE,
                      cue |-> FALSE]

\* detect_wand, before any detection is run: play_wand_detected_sound() is
\* called when tracePoints is None or empty
PlaysWandDetectedSound == Len(tracePoints) = 0

\* detect_wand(frame), for a frame showing the keypoints kps (none or one);
\* it raises ZeroDivisionError when elapsed is 0.0, after blobKeypoints was set
DetectWandRaises(kps) ==
    /\ Len(kps) > 0
    /\ Len(tracePoints) > 0
    /\ now - last_keypoint_int_time = 0

DetectWand(kps) ==
    /\ blobKeypoints' = kps
    /\ IF Len(kps) > 0 /\ ~DetectWandRaises(kps)
       THEN LET currentKeypointTime == now
            IN  IF Len(tracePoints) > 0
                THEN LET elapsed == currentKeypointTime - last_keypoint_int_time
                         pt1 == tracePoints[Len(tracePoints)]
                         pt2 == kps[1]
                     IN  IF CircleSpeedWithinLimit(Dist2(pt1, pt2), elapsed)
                         THEN /\ tracePoints' = Append(tracePoints, pt2)
                              /\ wand_move_tracing_frame' =
                                   wand_move_tracing_frame
                                     \cup {<<PxPoint(pt1), PxPoint(pt2)>>}
                              /\ last_keypoint_int_time' = currentKeypointTime
                              /\ UNCHANGED trace_start_time
                         ELSE UNCHANGED <<tracePoints, wand_move_tracing_frame,
                                          last_keypoint_int_time, trace_start_time>>
                ELSE /\ last_keypoint_int_time' = currentKeypointTime
                     /\ tracePoints' = Append(tracePoints, kps[1])
                     /\ trace_start_time' = currentKeypointTime
                     /\ UNCHANGED wand_move_tracing_frame
       ELSE UNCHANGED <<tracePoints, wand_move_tracing_frame,
                        last_keypoint_int_time, trace_start_time>>

\* a reset that empties the list of points and leaves the mask as it is
Reset_KeepsMask ==
    /\ tracePoints' = <<>>
    /\ UNCHANGED <<wand_move_tracing_frame, blobKeypoints, last_keypoint_int_time,
                   trace_start_time>>

\* a reset that clears the mask and leaves the list of points as it is
Reset_KeepsPoints ==
    /\ wand_move_tracing_frame' = {}
    /\ UNCHANGED <<tracePoints, blobKeypoints, last_keypoint_int_time,
                   trace_start_time>>

\* reset(): the trace state it clears, before it calls get_valid_frame()
Reset ==
    /\ wand_move_tracing_frame' = {}
    /\ tracePoints' = <<>>
    /\ UNCHANGED <<blobKeypoints, last_keypoint_int_time, trace_start_time>>

\* check_trace_validity(): its result
CheckTraceValidity ==
    /\ Len(blobKeypoints) = 0
    /\ TraceIsValid(Len(tracePoints), now - last_keypoint_int_time)

\* check_trace_validity(): whether it calls reset()
CheckTraceValidityResets ==
    /\ Len(blobKeypoints) = 0
    /\ ~TraceIsValid(Len(tracePoints), now - last_keypoint_int_time)

\* the image get_a_spell_maybe returns: the cropped trace, or a blank image
GetASpellMaybe ==
    IF CheckTraceValidity THEN wand_move_tracing_frame ELSE {}

(* ------------------------- spell dispatcher ---------------------------- *)
\* {k: v for k, v in predictions.items() if v > threshold}
Possible_Strict(preds) == SelectSeq(preds, LAMBDA e : e[2] > spell_threshold)

\* {k: v for k, v in predictions.items() if v >= self.spell_threshold}
Possible(preds) == SelectSeq(preds, LAMBDA e : e[2] >= spell_threshold)

\* max(possible, key=possible.get): the first entry of greatest value
RECURSIVE MaxFrom(_, _)
MaxFrom(best, rest) ==
    IF rest = <<>> THEN best
    ELSE MaxFrom(IF Head(rest)[2] > best[2] THEN Head(rest) ELSE best, Tail(rest))

MaxByValue(possible) == MaxFrom(Head(possible), Tail(possible))

\* _process_sigil: the label it returns for the classifier's predictions
ProcessSigil(preds) ==
    IF Possible(preds) # <<>> THEN MaxByValue(Possible(preds))[1] ELSE NO_SPELL_LABEL

\* the prediction maps the classifier can return
PredictionMaps ==
    {[i \in 1..NumLabels |-> <<Labels[i], f[i]>>] : f \in [1..NumLabels -> Probabilities]}

SigilInit ==
    /\ predictions = <<>>
    /\ result = None

(* ------------------------------ controller ----------------------------- *)
\* the labels _process_sigil can return
SpellNames == {ProcessSigil(preds) : preds \in PredictionMaps}

CtlInit ==
    /\ pc = "loop"
    /\ maybe_a_spell = {}
    /\ spell_name = None
    /\ stop_event = FALSE
    /\ video_end_calls = 0
    /\ raised = "none"
    /\ effect_running = FALSE
    /\ stopped_retries = 0
    /\ dispatch = "idle"
    /\ new_points = NullRef
    /\ reset_done = FALSE

\* the frames the video source can deliver
Frames == {<<>>} \cup {<<kp>> : kp \in CircleKeypoints}

\* self.effects[spell_name]: EffectFactory.__getitem__ raises KeyError for a
\* name that is not in self.spells
EffectLookupRaises(name) == name \notin Spells

\* a dispatcher that resets the detector only when no spell was recognised
AccioResets_OnlyNoSpell(name) == name = NO_SPELL_LABEL

\* _accio_spell: whether it reaches self.wand_detector.reset()
AccioResets(name) == TRUE

\* the outcomes of self.spell_net.classify(squared_sigil): a prediction map,
\* or an exception of the interpreter
ClassifyOutcomes == {"predictions", "raises"}

\* stop_event.set(), from outside the pipeline thread
CtlStop ==
    /\ ~stop_event
    /\ pc # "done"
    /\ stop_event' = TRUE
    /\ UNCHANGED <<now, blobVars, circleVars, funVars, pc, maybe_a_spell,
                   spell_name, video_end_calls, raised, effect_running,
                   stopped_retries, dispatch,
                   new_points, reset_done>>

\* `while not self.stop_event.is_set()` is false: finally: self._terminate()
CtlExit ==
    /\ pc = "loop"
    /\ stop_event
    /\ pc' = "done"
    /\ video_end_calls' = video_end_calls + 1
    /\ UNCHANGED <<now, blobVars, circleVars, funVars, maybe_a_spell,
                   spell_name, stop_event, raised, effect_running,
                   stopped_retries, dispatch,
                   new_points, reset_done>>

\* ret, frame = self.video.read(), without one: warning, then the sleep
CtlReadFails ==
    /\ pc = "loop"
    /\ ~stop_event
    /\ pc' = "sleep"
    /\ UNCHANGED <<now, blobVars, circleVars, funVars, maybe_a_spell,
                   spell_name, stop_event, video_end_calls, raised,
                   effect_running, stopped_retries, dispatch,
                   new_points, reset_done>>

\* the count of the points accepted since the last _accio_spell call: not
\* kept before the first call, and not counted beyond MaxNewPoints
CountUpTo(n) == IF n = NullRef \/ n >= MaxNewPoints THEN n ELSE n + 1

\* ret, frame = self.video.read() with a frame f, and
\* self.wand_detector.detect_wand(frame)
CtlDetectWand ==
    /\ pc = "loop"
    /\ ~stop_event
    /\ \E f \in Frames :
          /\ DetectWand(f)
          /\ IF DetectWandRaises(f)
             THEN /\ raised' = "ZeroDivisionError"
                  /\ pc' = "done"
                  /\ video_end_calls' = video_end_calls + 1
             ELSE /\ pc' = "get_spell"
                  /\ UNCHANGED <<raised, video_end_calls>>
    /\ new_points' = IF tracePoints' # tracePoints THEN CountUpTo(new_points)
                     ELSE new_points
    /\ UNCHANGED <<now, blobVars, funVars, maybe_a_spell, spell_name,
                   stop_event, effect_running, stopped_retries, dispatch,
                   reset_done>>

\* maybe_a_spell = self.wand_detector.get_a_spell_maybe(), and the test on it;
\* when check_trace_validity calls reset(), the thread goes on inside reset()
CtlGetSpell ==
    /\ pc = "get_spell"
    /\ maybe_a_spell' = GetASpellMaybe
    /\ IF CheckTraceValidityResets
       THEN /\ Reset
            /\ reset_done' = (new_points # NullRef)
            /\ pc' = "reset"
       ELSE /\ UNCHANGED <<circleVars, reset_done>>
            /\ pc' = IF maybe_a_spell' # {} THEN "sigil" ELSE "sleep"
    /\ UNCHANGED <<now, blobVars, funVars, spell_name, stop_event,
                   video_end_calls, raised, effect_running, stopped_retries,
                   dispatch, new_points>>

\* spell_name, self.preprocessed_frame = self._process_sigil(maybe_a_spell);
\* an exception of classify leaves run() through finally: self._terminate()
CtlProcessSigil ==
    /\ pc = "sigil"
    /\ \E outcome \in ClassifyOutcomes :
          IF outcome = "raises"
          THEN /\ raised' = "ClassifierError"
               /\ dispatch' = "classify_raised"
               /\ pc' = "done"
               /\ video_end_calls' = video_end_calls + 1
               /\ UNCHANGED spell_name
          ELSE /\ \E name \in SpellNames : spell_name' = name
               /\ dispatch' = "classified"
               /\ pc' = "accio"
               /\ UNCHANGED <<raised, video_end_calls>>
    /\ maybe_a_spell' = {}      \* the local is not read again
    /\ UNCHANGED <<now, blobVars, circleVars, funVars, stop_event,
                   effect_running, stopped_retries,
                   new_points, reset_done>>

\* self._accio_spell(spell_name), up to the call of EffectContainer.run() for a
\* spell, and up to the call of reset() for the no-spell label
CtlAccioSpell ==
    /\ pc = "accio"
    /\ IF spell_name # NO_SPELL_LABEL /\ EffectLookupRaises(spell_name)
       THEN \* KeyError leaves run() through finally: self._terminate()
            /\ raised' = "KeyError"
            /\ pc' = "done"
            /\ video_end_calls' = video_end_calls + 1
            /\ reset_done' = FALSE
            /\ UNCHANGED <<circleVars, dispatch, effect_running>>
       ELSE IF spell_name # NO_SPELL_LABEL
       THEN \* self.effects[spell_name].run(), on the pipeline thread
            /\ effect_running' = TRUE
            /\ pc' = "effect"
            /\ reset_done' = FALSE
            /\ UNCHANGED <<circleVars, dispatch, raised, video_end_calls>>
       ELSE /\ IF AccioResets(spell_name)
               THEN /\ Reset
                    /\ dispatch' = "reset"
                    /\ reset_done' = TRUE
                    /\ pc' = "reset"
               ELSE /\ UNCHANGED <<circleVars, dispatch>>
                    /\ reset_done' = FALSE
                    /\ pc' = "sleep"
            /\ UNCHANGED <<raised, video_end_calls, effect_running>>
    /\ new_points' = 0
    /\ UNCHANGED <<now, blobVars, funVars, maybe_a_spell, spell_name,
                   stop_event, stopped_retries>>

\* EffectContainer.run() returns (it catches every Exception of its effects),
\* and _accio_spell calls self.wand_detector.reset()
CtlEffectDone ==
    /\ pc = "effect"
    /\ effect_running' = FALSE
    /\ IF AccioResets(spell_name)
       THEN /\ Reset
            /\ dispatch' = "reset"
            /\ reset_done' = TRUE
            /\ pc' = "reset"
       ELSE /\ UNCHANGED <<circleVars, dispatch, reset_done>>
            /\ pc' = "sleep"
    /\ UNCHANGED <<now, blobVars, funVars, maybe_a_spell, spell_name,
                   stop_event, video_end_calls, raised, stopped_retries,
                   new_points>>

\* get_valid_frame() inside reset(): self.video.read() gives a frame, reset()
\* returns, and the pass of the loop goes on to its sleep
CtlResetReadOk ==
    /\ pc = "reset"
    /\ pc' = "sleep"
    /\ UNCHANGED <<now, blobVars, circleVars, funVars, maybe_a_spell,
                   spell_name, stop_event, video_end_calls, raised,
                   effect_running, stopped_retries, dispatch,
                   new_points, reset_done>>

\* get_valid_frame() inside reset(): self.video.read() fails, and the
\* `while True` loop tries again without looking at stop_event
CtlResetReadFails ==
    /\ pc = "reset"
    /\ stopped_retries < MaxRetries
    /\ stopped_retries' = IF stop_event THEN stopped_retries + 1 ELSE stopped_retries
    /\ UNCHANGED <<now, blobVars, circleVars, funVars, pc, maybe_a_spell,
                   spell_name, stop_event, video_end_calls, raised,
                   effect_running, dispatch,
                   new_points, reset_done>>

\* time.sleep(0.05) and the time the pass took
CtlSleep ==
    /\ pc = "sleep"
    /\ \E d \in 1..MaxSleep :
          /\ now + d <= MaxCtlTime
          /\ now' = now + d
    /\ pc' = "loop"
    /\ spell_name' = None       \* the local is not read again
    /\ dispatch' = "idle"
    /\ UNCHANGED <<blobVars, circleVars, funVars, maybe_a_spell, stop_event,
                   video_end_calls, raised, effect_running, stopped_retries,
                   new_points, reset_done>>

CtlNext ==
    \/ CtlStop
    \/ CtlExit
    \/ CtlReadFails
    \/ CtlDetectWand
    \/ CtlGetSpell
    \/ CtlProcessSigil
    \/ CtlAccioSpell
    \/ CtlEffectDone
    \/ CtlResetReadOk
    \/ CtlResetReadFails
    \/ CtlSleep

(* ------------------------ _process_sigil alone ------------------------- *)
\* what the runs of _process_sigil leave alone
sigilRest == <<now, blobVars, circleVars, ctlVars, streamVars, detVars,
               spellSigilVars, cropVars, looperVars,
    cameraVars,
    effectVars,
    containerVars,
    servoVars,
    cropboxVars>>

\* predictions = self.spell_net.classify(...)
SigilClassify ==
    /\ \E preds \in PredictionMaps : predictions' = preds
    /\ result' = None
    /\ UNCHANGED sigilRest

\* steps 4 and 5 of _process_sigil
SigilSelect ==
    /\ predictions # <<>>
    /\ result = None
    /\ result' = ProcessSigil(predictions)
    /\ UNCHANGED <<predictions, sigilRest>>

SigilNext == SigilClassify \/ SigilSelect

(* ------------- both detectors, given the same calls ------------------- *)
\* time passes between calls
DetTick ==
    /\ now < MaxTime
    /\ now' = now + 1
    /\ UNCHANGED <<blobVars, circleVars, ctlVars, funVars>>

\* detect_wand(frame) on the blob detector and on the circles detector, for a
\* frame f; the circles detector's call ends with ZeroDivisionError when its
\* elapsed time is 0.0
DetDetectWand ==
    /\ \E f \in Frames :
          /\ IF f = <<>> THEN BlobDetectNothingCall ELSE BlobDetectKeypointCall(f[1])
          /\ DetectWand(f)
          /\ circle_call' = [op |-> "detect_wand",
                             before |-> circle_call.op,
                             elapsed |-> now - last_keypoint_int_time,
                             outcome |-> IF DetectWandRaises(f)
                                         THEN "ZeroDivisionError" ELSE "returned",
                             was_empty |-> tracePoints = <<>>,
                             cue |-> PlaysWandDetectedSound]
    /\ UNCHANGED <<now, ctlVars, sigilVars, streamVars, spellSigilVars, cropVars,
                   looperVars,
                   cameraVars,
                   effectVars,
                   containerVars,
                   servoVars,
                   cropboxVars>>

\* reset() on both detectors (the circles detector's get_valid_frame() is
\* given a frame)
DetReset ==
    /\ BlobResetCall
    /\ Reset
    /\ circle_call' = [op |-> "reset", before |-> circle_call.op, elapsed |-> 0,
                       outcome |-> "returned",
                       was_empty |-> tracePoints = <<>> /\ wand_move_tracing_frame = {},
                       cue |-> FALSE]
    /\ UNCHANGED <<now, ctlVars, sigilVars, streamVars, spellSigilVars, cropVars,
                   looperVars,
                   cameraVars,
                   effectVars,
                   containerVars,
                   servoVars,
                   cropboxVars>>

DetNext == DetTick \/ DetDetectWand \/ DetReset

(* ------------- published images and the streaming generators ---------- *)
\* what the streaming runs leave alone
streamRest == <<now, blobVars, circleVars, ctlVars, sigilVars, detVars,
                spellSigilVars, cropVars, looperVars,
    cameraVars,
    effectVars,
    containerVars,
    servoVars,
    cropboxVars>>

\* the id of the next image object to allocate
NextObject == Cardinality(DOMAIN heap)

\* an overlay that is drawn onto the image the field holds
AddWeighted_InPlace(current) == current

\* combined_frame = cv2.addWeighted(video_frame_bgr, 1.0, colored_trace, alpha, 0):
\* a new array, whatever latest_wand_frame holds
AddWeighted(current) == NextObject

\* the fields an image consumer reads
Published == {latest_wand_frame, spell_frame}

\* WandDetector.__init__ and PiPotterController.__init__: both fields hold an
\* np.zeros image of their own
StreamInit ==
    /\ heap = [id \in {0, 1} |-> 0]
    /\ latest_wand_frame = 0
    /\ spell_frame = 1
    /\ combined_frame = NullRef
    /\ stream_pc = "superimpose"
    /\ video_gen = [pc |-> "check", encoded |-> NullRef, none_seen |-> FALSE]
    /\ spell_gen = [pc |-> "check", encoded |-> NullRef, none_seen |-> FALSE]
    /\ published_mutated = FALSE

\* superimpose_trace_and_debug_info, called by detect_wand and by reset():
\* up to combined_frame = cv2.addWeighted(...)
StreamSuperimpose ==
    /\ stream_pc = "superimpose"
    /\ NextObject < MaxObjects
    /\ combined_frame' = AddWeighted(latest_wand_frame)
    /\ heap' = IF combined_frame' \in DOMAIN heap
               THEN heap
               ELSE [id \in DOMAIN heap \cup {combined_frame'} |->
                        IF id \in DOMAIN heap THEN heap[id] ELSE 0]
    /\ stream_pc' = "put_text"
    /\ UNCHANGED <<latest_wand_frame, spell_frame, video_gen, spell_gen,
                   published_mutated>>
    /\ UNCHANGED streamRest

\* the three cv2.putText(combined_frame, ...) calls: writes into combined_frame
StreamPutText ==
    /\ stream_pc = "put_text"
    /\ heap' = [heap EXCEPT ![combined_frame] = @ + 1]
    /\ published_mutated' = (published_mutated \/ combined_frame \in Published)
    /\ stream_pc' = "assign"
    /\ UNCHANGED <<latest_wand_frame, spell_frame, combined_frame, video_gen,
                   spell_gen>>
    /\ UNCHANGED streamRest

\* self.latest_wand_frame = self.superimpose_trace_and_debug_info(...); the
\* pass then goes on to the next superimpose (next frame, or reset()) or to
\* _process_sigil
StreamAssign ==
    /\ stream_pc = "assign"
    /\ latest_wand_frame' = combined_frame
    /\ combined_frame' = NullRef
    /\ \E next \in {"superimpose", "process_sigil"} : stream_pc' = next
    /\ UNCHANGED <<heap, spell_frame, video_gen, spell_gen, published_mutated>>
    /\ UNCHANGED streamRest

\* _process_sigil: squared_sigil = pad_to_square(a_sigil) is a new array, and
\* self.spell_frame = squared_sigil; classify and _save_file only read it;
\* _accio_spell then calls reset()
StreamProcessSigil ==
    /\ stream_pc = "process_sigil"
    /\ NextObject < MaxObjects
    /\ heap' = [id \in DOMAIN heap \cup {NextObject} |->
                  IF id \in DOMAIN heap THEN heap[id] ELSE 0]
    /\ spell_frame' = NextObject
    /\ stream_pc' = "superimpose"
    /\ UNCHANGED <<latest_wand_frame, combined_frame, video_gen, spell_gen,
                   published_mutated>>
    /\ UNCHANGED streamRest

\* video_frame_generator: `if controller.wand_detector.latest_wand_frame is not None`
GenVideoCheck ==
    /\ video_gen.pc = "check"
    /\ video_gen' = [video_gen EXCEPT
                       !.pc = IF latest_wand_frame # NullRef THEN "encode" ELSE "check"]
    /\ UNCHANGED <<heap, latest_wand_frame, spell_frame, combined_frame,
                   stream_pc, spell_gen, published_mutated>>
    /\ UNCHANGED streamRest

\* video_frame_generator: cv2.imencode(".jpg", controller.wand_detector.latest_wand_frame),
\* a second read of the field, then the sleep
GenVideoEncode ==
    /\ video_gen.pc = "encode"
    /\ video_gen' = [pc |-> "check", encoded |-> latest_wand_frame,
                     none_seen |-> (video_gen.none_seen \/ latest_wand_frame = NullRef)]
    /\ UNCHANGED <<heap, latest_wand_frame, spell_frame, combined_frame,
                   stream_pc, spell_gen, published_mutated>>
    /\ UNCHANGED streamRest

\* spell_frame_generator: `if controller.spell_frame is not None`
GenSpellCheck ==
    /\ spell_gen.pc = "check"
    /\ spell_gen' = [spell_gen EXCEPT
                       !.pc = IF spell_frame # NullRef THEN "encode" ELSE "check"]
    /\ UNCHANGED <<heap, latest_wand_frame, spell_frame, combined_frame,
                   stream_pc, video_gen, published_mutated>>
    /\ UNCHANGED streamRest

\* spell_frame_generator: cv2.imencode(".jpg", controller.spell_frame)
GenSpellEncode ==
    /\ spell_gen.pc = "encode"
    /\ spell_gen' = [pc |-> "check", encoded |-> spell_frame,
                     none_seen |-> (spell_gen.none_seen \/ spell_frame = NullRef)]
    /\ UNCHANGED <<heap, latest_wand_frame, spell_frame, combined_frame,
                   stream_pc, video_gen, published_mutated>>
    /\ UNCHANGED streamRest

StreamNext ==
    \/ StreamSuperimpose
    \/ StreamPutText
    \/ StreamAssign
    \/ StreamProcessSigil
    \/ GenVideoCheck
    \/ GenVideoEncode
    \/ GenSpellCheck
    \/ GenSpellEncode

(* ------------------------------ SpellSigil ---------------------------- *)
\* what the runs of SpellSigil leave alone
spellSigilRest == <<now, blobVars, circleVars, ctlVars, sigilVars, streamVars,
                    detVars, cropVars, looperVars,
    cameraVars,
    effectVars,
    containerVars,
    servoVars,
    cropboxVars>>

\* no get_box() result
NoBox == <<>>

\* f = lambda x: max(0, x)
ClampNegative(x) == IF x > 0 THEN x ELSE 0

\* matrix.min(axis=0)[i] and matrix.max(axis=0)[i] of a non-empty history
ColumnMin(h, i) ==
    CHOOSE v \in {h[k][i] : k \in 1..Len(h)} : \A k \in 1..Len(h) : v <= h[k][i]
ColumnMax(h, i) ==
    CHOOSE v \in {h[k][i] : k \in 1..Len(h)} : \A k \in 1..Len(h) : v >= h[k][i]

\* top -= self.margin if top - self.margin >= 0 else 0
TopWithMargin(top) ==
    IF top - pixels_margin >= 0 THEN top - pixels_margin ELSE top

\* left -= self.margin if top - self.margin >= 0 else 0, where top is the value
\* the line before has already moved
LeftWithMargin(left, top) ==
    IF TopWithMargin(top) - pixels_margin >= 0 THEN left - pixels_margin ELSE left

\* SpellSigil.get_box() of a non-empty history
BoxOf(h) ==
    LET min_left   == ColumnMin(h, 1)
        min_top    == ColumnMin(h, 2)
        max_right  == ColumnMax(h, 3)
        max_bottom == ColumnMax(h, 4)
        left   == IF min_left > max_right THEN max_right ELSE min_left
        right  == IF min_left > max_right THEN min_left ELSE max_right
        top    == IF min_top > max_bottom THEN max_bottom ELSE min_top
        bottom == IF min_top > max_bottom THEN min_top ELSE max_bottom
    IN  <<LeftWithMargin(left, top), TopWithMargin(top),
          right + pixels_margin, bottom + pixels_margin>>

SpellSigilInit ==
    /\ history = <<>>
    /\ box = NoBox

\* SpellSigil.add(left, top, right, bottom)
SigilAdd(left, top, right, bottom) ==
    LET new_point == <<ClampNegative(left), ClampNegative(top),
                       ClampNegative(right), ClampNegative(bottom)>>
    IN  /\ Len(history) < MaxHistory
        /\ IF history # <<>> /\ history[Len(history)] = new_point
           THEN UNCHANGED history
           ELSE history' = Append(history, new_point)
        /\ box' = NoBox
        /\ UNCHANGED spellSigilRest

\* SpellSigil.get_box(), which raises ValueError on an empty history
GetBox ==
    /\ box = NoBox
    /\ box' = IF history = <<>> THEN <<"ValueError">> ELSE BoxOf(history)
    /\ UNCHANGED <<history, spellSigilRest>>

SpellSigilNext ==
    \/ \E left, right \in XCoordinates, top, bottom \in YCoordinates :
          SigilAdd(left, top, right, bottom)
    \/ GetBox

(* ------------------- get_a_spell_maybe: the image shape ---------------- *)
\* what the runs of get_a_spell_maybe on its own leave alone
cropRest == <<now, blobVars, circleVars, ctlVars, sigilVars, streamVars,
              detVars, spellSigilVars, looperVars,
    cameraVars,
    effectVars,
    containerVars,
    servoVars,
    cropboxVars>>

Max2(a, b) == IF a > b THEN a ELSE b
Min2(a, b) == IF a < b THEN a ELSE b

\* the corners a trace can have: _traceUpperCorner and _traceLowerCorner after
\* _update_trace_boundaries
TraceCorners ==
    {c \in [upper_x : CornerXs, upper_y : CornerYs, lower_x : CornerXs, lower_y : CornerYs] :
        c.upper_x <= c.lower_x /\ c.upper_y <= c.lower_y}

\* the crop of both _crop_save_trace methods: its width and height
CropWidth(c) ==
    Min2(c.lower_x + CROPPED_IMG_MARGIN, frame_width)
      - Max2(c.upper_x - CROPPED_IMG_MARGIN, 0)
CropHeight(c) ==
    Min2(c.lower_y + CROPPED_IMG_MARGIN, frame_height)
      - Max2(c.upper_y - CROPPED_IMG_MARGIN, 0)

\* detector_circles._crop_save_trace: the shape of final_trace_cell, or the
\* exception of a division by a zero width or height, or of a resize to nothing
CropSaveTraceShape(c) ==
    LET trace_width  == CropWidth(c)
        trace_height == CropHeight(c)
        \* scale = min(224 / trace_width, 224 / trace_height)
        new_width  == IF trace_width >= trace_height
                      THEN 224 ELSE (trace_width * 224) \div trace_height
        new_height == IF trace_width >= trace_height
                      THEN (trace_height * 224) \div trace_width ELSE 224
    IN  IF trace_width = 0 \/ trace_height = 0 THEN <<"ZeroDivisionError">>
        ELSE IF new_width = 0 \/ new_height = 0 THEN <<"cv2.error">>
        ELSE <<224, 224>>

\* detector_fast._crop_save_trace: the shape of finalTraceCell
FastCropSaveTraceShape(c) ==
    LET trace_width  == CropWidth(c)
        trace_height == CropHeight(c)
        size_width  == IF trace_height > trace_width
                       THEN (trace_width * 224) \div trace_height ELSE 224
        size_height == IF trace_height > trace_width
                       THEN 224 ELSE (trace_height * 224) \div trace_width
    IN  IF trace_width = 0 /\ trace_height = 0 THEN <<"ZeroDivisionError">>
        ELSE IF size_width = 0 \/ size_height = 0 THEN <<"cv2.error">>
        ELSE <<224, 224>>

\* detector_fast.check_trace_validity: its two validity criteria
FastTraceIsValid(trace_length, elapsed) ==
    \/ trace_length >= FAST_POINTS_BUFFER_SIZE - 5
    \/ elapsed < max_time /\ trace_length > (FAST_POINTS_BUFFER_SIZE \div 3)

SpellImageInit ==
    spell_image = [detector |-> "none", valid |-> FALSE, keypoints |-> 0,
                   trace_length |-> 0, elapsed |-> 0, corners |-> <<>>,
                   shape |-> <<>>]

\* detector_circles.WandDetector.get_a_spell_maybe: result = np.zeros((224, 224)),
\* replaced by the cropped trace when check_trace_validity() is true
GetASpellMaybeCircles ==
    /\ \E n \in KeypointCounts, l \in TraceLengths, e \in ElapsedTimes, c \in TraceCorners :
          LET valid == n = 0 /\ TraceIsValid(l, e)
          IN  spell_image' = [detector |-> "circles", valid |-> valid, keypoints |-> n,
                              trace_length |-> l, elapsed |-> e, corners |-> c,
                              shape |-> IF valid THEN CropSaveTraceShape(c)
                                        ELSE <<224, 224>>]
    /\ UNCHANGED cropRest

\* detector_fast.WandDetector.get_a_spell_maybe: result = np.zeros((224, 244)),
\* replaced by the cropped trace when check_trace_validity() is true
GetASpellMaybeFast ==
    /\ \E n \in KeypointCounts, l \in TraceLengths, e \in ElapsedTimes, c \in TraceCorners :
          LET valid == n = 0 /\ FastTraceIsValid(l, e)
          IN  spell_image' = [detector |-> "fast", valid |-> valid, keypoints |-> n,
                              trace_length |-> l, elapsed |-> e, corners |-> c,
                              shape |-> IF valid THEN FastCropSaveTraceShape(c)
                                        ELSE <<224, 244>>]
    /\ UNCHANGED cropRest

SpellImageNext == GetASpellMaybeCircles \/ GetASpellMaybeFast

(* ------------------------------ VideoLooper --------------------------- *)
\* what the runs of VideoLooper leave alone
looperRest == <<now, blobVars, circleVars, ctlVars, sigilVars, streamVars,
                detVars, spellSigilVars, cropVars,
    cameraVars,
    effectVars,
    containerVars,
    servoVars,
    cropboxVars>>

\* cv2.VideoCapture.read() at position pos of a file of n frames: ret, the index
\* of the frame, and the position after the call
CaptureRead(pos, n) ==
    IF pos < n
    THEN [ret |-> TRUE, frame |-> pos, position |-> pos + 1]
    ELSE [ret |-> FALSE, frame |-> NullRef, position |-> pos]

LooperInit ==
    /\ total_frames = 0
    /\ frame_counter = 0
    /\ video_position = 0
    /\ read_result = [ret |-> FALSE, frame |-> NullRef]
    /\ reads = 0

\* VideoLooper(videofile) for a file of n frames: the frames are counted on a
\* capture of their own, self.video is at the start of the file
VideoLooperNew(n) ==
    /\ total_frames = 0
    /\ total_frames' = n
    /\ frame_counter' = 0
    /\ video_position' = 0
    /\ UNCHANGED <<read_result, reads, looperRest>>

\* VideoLooper.read(): _read(), and when frame_counter has reached
\* total_frames, the file is reopened and _read() is called again, its result
\* replacing the first one (flip is empty)
LooperRead ==
    LET first == CaptureRead(video_position, total_frames)
        again == CaptureRead(0, total_frames)
        loops == frame_counter + 1 >= total_frames
    IN  /\ total_frames > 0
        /\ reads < MaxReads
        /\ reads' = reads + 1
        /\ IF loops
           THEN /\ frame_counter' = 1
                /\ video_position' = again.position
                /\ read_result' = [ret |-> again.ret, frame |-> again.frame]
           ELSE /\ frame_counter' = frame_counter + 1
                /\ video_position' = first.position
                /\ read_result' = [ret |-> first.ret, frame |-> first.frame]
        /\ UNCHANGED <<total_frames, looperRest>>

LooperNext ==
    \/ \E n \in 1..MaxFrames : VideoLooperNew(n)
    \/ LooperRead

(* ------------------------------ PiCameraCV ---------------------------- *)
\* what the runs of PiCameraCV leave alone
cameraRest == <<now, blobVars, circleVars, ctlVars, sigilVars, streamVars,
                detVars, spellSigilVars, cropVars, looperVars,
    effectVars,
    containerVars,
    servoVars,
    cropboxVars>>

\* PiCameraCV.__init__: an empty queue, stopped = False, the capture thread
\* started at the top of update()
CameraInit ==
    /\ frame_queue = <<>>
    /\ cam_pc = "loop"
    /\ gray_frame = NullRef
    /\ captured = 0
    /\ stopped = FALSE
    /\ cam_read = [ret |-> FALSE, frame |-> NullRef, latest |-> 0, calls |-> 0]

\* update(): `while not self.stopped`, capture_array() and cvtColor; frames are
\* numbered in the order they are captured
CameraCapture ==
    /\ cam_pc = "loop"
    /\ ~stopped
    /\ captured < MaxCaptured
    /\ captured' = captured + 1
    /\ gray_frame' = captured + 1
    /\ cam_pc' = "put"
    /\ UNCHANGED <<frame_queue, stopped, cam_read, cameraRest>>

\* Queue.put_nowait(item): the item goes to the end of the queue, or Full is
\* raised when the queue holds maxsize items
PutNowait(frames, item) ==
    IF Len(frames) >= queue_size THEN frames ELSE Append(frames, item)

\* update(): frame_queue.put_nowait(gray_frame), Full is ignored
CameraPut ==
    /\ cam_pc = "put"
    /\ frame_queue' = PutNowait(frame_queue, gray_frame)
    /\ cam_pc' = "loop"
    /\ UNCHANGED <<gray_frame, captured, stopped, cam_read, cameraRest>>

\* update(): the loop ends once self.stopped is set
CameraExit ==
    /\ cam_pc = "loop"
    /\ stopped
    /\ cam_pc' = "exited"
    /\ UNCHANGED <<frame_queue, gray_frame, captured, stopped, cam_read, cameraRest>>

\* the last frame update() has handed to put_nowait (0 before the first one)
LatestProduced == IF cam_pc = "put" THEN captured - 1 ELSE captured

\* read(): frame_queue.get() when the queue is not empty (the reader is the
\* only consumer, so get() finds an item), else (False, None)
CameraRead ==
    /\ IF frame_queue # <<>>
       THEN /\ cam_read' = [ret |-> TRUE, frame |-> Head(frame_queue),
                            latest |-> LatestProduced, calls |-> 1]
            /\ frame_queue' = Tail(frame_queue)
       ELSE /\ cam_read' = [ret |-> FALSE, frame |-> NullRef,
                            latest |-> LatestProduced, calls |-> 1]
            /\ UNCHANGED frame_queue
    /\ UNCHANGED <<cam_pc, gray_frame, captured, stopped, cameraRest>>

\* end(): self.stopped = True
CameraEnd ==
    /\ ~stopped
    /\ stopped' = TRUE
    /\ UNCHANGED <<frame_queue, cam_pc, gray_frame, captured, cam_read, cameraRest>>

CameraNext ==
    \/ CameraCapture
    \/ CameraPut
    \/ CameraExit
    \/ CameraRead
    \/ CameraEnd

(* ---------------------------- EffectContainer -------------------------- *)
\* what the runs of EffectContainer leave alone
effectRest == <<now, blobVars, circleVars, ctlVars, sigilVars, streamVars,
                detVars, spellSigilVars, cropVars, looperVars, cameraVars,
    containerVars,
    servoVars,
    cropboxVars>>

\* an_effect.run() raises an Exception
EffectRaises(an_effect) == an_effect = "failing_effect"

\* EffectContainer.__init__: an empty queue; no run() made yet
EffectInit ==
    /\ queue = <<>>
    /\ effect_run = [done |-> FALSE, ran |-> <<>>, calls |-> <<>>,
                     failed |-> 0, ret |-> FALSE]

\* append(val) for an Effect
EffectAppend(val) ==
    /\ Len(queue) < MaxEffects
    /\ queue' = Append(queue, val)
    /\ UNCHANGED <<effect_run, effectRest>>

\* __delitem__(ii)
EffectDelItem(ii) ==
    /\ ii \in 1..Len(queue)
    /\ queue' = SubSeq(queue, 1, ii - 1) \o SubSeq(queue, ii + 1, Len(queue))
    /\ UNCHANGED <<effect_run, effectRest>>

\* the loop of run() from the i-th effect on: each an_effect.run() is called
\* inside try/except, an exception adds one to failed and the loop goes on
RECURSIVE RunLoop(_, _, _, _)
RunLoop(q, i, calls, failed) ==
    IF i > Len(q)
    THEN [calls |-> calls, failed |-> failed]
    ELSE RunLoop(q, i + 1, Append(calls, q[i]),
                 IF EffectRaises(q[i]) THEN failed + 1 ELSE failed)

ReturnValue_AlwaysTrue(failed) == TRUE

\* return not failed
ReturnValue(failed) == failed = 0

\* EffectContainer.run()
EffectContainerRun ==
    LET loop == RunLoop(queue, 1, <<>>, 0)
    IN  /\ effect_run' = [done |-> TRUE, ran |-> queue, calls |-> loop.calls,
                          failed |-> loop.failed, ret |-> ReturnValue(loop.failed)]
        /\ UNCHANGED <<queue, effectRest>>

EffectNext ==
    \/ \E val \in Effects : EffectAppend(val)
    \/ \E ii \in 1..MaxEffects : EffectDelItem(ii)
    \/ EffectContainerRun

(* ---------------------------- SpellsContainer -------------------------- *)
\* what the runs of SpellsContainer leave alone
containerRest == <<blobVars, circleVars, ctlVars, sigilVars, streamVars,
                   detVars, spellSigilVars, cropVars, looperVars, cameraVars,
                   effectVars,
    servoVars,
    cropboxVars>>

\* {}
EmptyDict == [key \in {} |-> <<>>]

\* SpellsContainer.__init__
ContainerInit ==
    /\ sigils = EmptyDict
    /\ last_update_time = NullRef
    /\ container_call = [op |-> "init", ret |-> FALSE]
    /\ updated_since_reset = FALSE
    /\ last_setitem_time = 0

\* time passes between calls
ContainerTick ==
    /\ now < MaxContainerTime
    /\ now' = now + 1
    /\ UNCHANGED <<containerVars, containerRest>>

\* SpellSigil.add on a history h: the clamped line is appended unless it
\* repeats the last one
HistoryAdd(h, item) ==
    LET new_point == <<ClampNegative(item[1]), ClampNegative(item[2]),
                       ClampNegative(item[3]), ClampNegative(item[4])>>
    IN  IF h # <<>> /\ h[Len(h)] = new_point THEN h ELSE Append(h, new_point)

\* container[key] = item
ContainerSetItem(key, item) ==
    LET h == IF key \in DOMAIN sigils THEN sigils[key] ELSE <<>>
    IN  /\ Len(h) < MaxHistory
        /\ sigils' = [k \in DOMAIN sigils \cup {key} |->
                         IF k = key THEN HistoryAdd(h, item) ELSE sigils[k]]
        /\ last_update_time' = now
        /\ container_call' = [op |-> "setitem", ret |-> FALSE]
        /\ updated_since_reset' = TRUE
        /\ last_setitem_time' = now
        /\ UNCHANGED <<now, containerRest>>

\* del container[key]
ContainerDelItem(key) ==
    /\ key \in DOMAIN sigils
    /\ sigils' = [k \in DOMAIN sigils \ {key} |-> sigils[k]]
    /\ container_call' = [op |-> "delitem", ret |-> FALSE]
    /\ UNCHANGED <<now, last_update_time, updated_since_reset, last_setitem_time,
                   containerRest>>

\* reset()
ContainerReset ==
    /\ sigils' = EmptyDict
    /\ last_update_time' = NullRef
    /\ container_call' = [op |-> "reset", ret |-> FALSE]
    /\ updated_since_reset' = FALSE
    /\ UNCHANGED <<now, last_setitem_time, containerRest>>

IsStale_AtExpiration ==
    IF last_update_time = NullRef
    THEN TRUE
    ELSE (now - last_update_time) >= expiration_time

\* is_stale() evaluated at time.time() = now
IsStale ==
    IF last_update_time = NullRef
    THEN TRUE
    ELSE (now - last_update_time) > expiration_time

\* a call of is_stale()
ContainerIsStale ==
    /\ container_call' = [op |-> "is_stale", ret |-> IsStale]
    /\ UNCHANGED <<now, sigils, last_update_time, updated_since_reset,
                   last_setitem_time, containerRest>>

\* auto_clear(): reset() when is_stale()
ContainerAutoClear ==
    /\ container_call' = [op |-> "auto_clear", ret |-> IsStale]
    /\ IF IsStale
       THEN /\ sigils' = EmptyDict
            /\ last_update_time' = NullRef
            /\ updated_since_reset' = FALSE
       ELSE UNCHANGED <<sigils, last_update_time, updated_since_reset>>
    /\ UNCHANGED <<now, last_setitem_time, containerRest>>

ContainerNext ==
    \/ ContainerTick
    \/ \E key \in ContainerKeys, item \in ContainerItems : ContainerSetItem(key, item)
    \/ \E key \in ContainerKeys : ContainerDelItem(key)
    \/ ContainerReset
    \/ ContainerIsStale
    \/ ContainerAutoClear

(* ------------------------------ ServoMotor ----------------------------- *)
\* what the runs of ServoMotor leave alone
servoRest == <<now, blobVars, circleVars, ctlVars, sigilVars, streamVars,
               detVars, spellSigilVars, cropVars, looperVars, cameraVars,
               effectVars, containerVars,
    cropboxVars>>

\* no ServoMotor is constructed yet
ServoInit ==
    /\ commands = <<>>
    /\ pwm = None
    /\ gpio_calls = <<>>
    /\ run_calls = <<>>
    /\ runs = NullRef

\* _read_json: the angles of the set_angle commands, in configured order;
\* other commands are logged and dropped
RECURSIVE ReadJson(_)
ReadJson(config) ==
    IF config = <<>>
    THEN <<>>
    ELSE (IF Head(config)[1] = "set_angle" THEN <<Head(config)[2]>> ELSE <<>>)
         \o ReadJson(Tail(config))

\* ServoMotor(jsonable_string)
ServoMotorNew(config) ==
    /\ runs = NullRef
    /\ commands' = ReadJson(config)
    /\ pwm' = None
    /\ gpio_calls' = <<>>
    /\ run_calls' = <<>>
    /\ runs' = 0
    /\ UNCHANGED servoRest

\* float(angle) / 18.0 + 2.5, in hundredths
DutyCycle(angle) == (angle * 100) \div 18 + 250

\* _initialize_pwm() with self.pwm = p: the pwm after it and the calls it made
InitializePwm(p) ==
    IF p = None
    THEN [pwm |-> "PWM",
          calls |-> <<<<"setmode", BCM>>, <<"setup", gpio_pin>>,
                      <<"PWM", gpio_pin>>, <<"start", 0>>>>]
    ELSE [pwm |-> p, calls |-> <<>>]

\* set_angle(angle) with self.pwm = p
SetAngle(p, angle) ==
    LET init == InitializePwm(p)
    IN  [pwm |-> init.pwm,
         calls |-> Append(init.calls, <<"ChangeDutyCycle", DutyCycle(angle)>>)]

Stop_KeepsPwm(p) ==
    IF p # None
    THEN [pwm |-> p,
          calls |-> <<<<"ChangeDutyCycle", 0>>, <<"stop", 0>>,
                      <<"cleanup", gpio_pin>>>>]
    ELSE [pwm |-> p, calls |-> <<>>]

\* stop() with self.pwm = p
Stop(p) ==
    IF p # None
    THEN [pwm |-> None,
          calls |-> <<<<"ChangeDutyCycle", 0>>, <<"stop", 0>>,
                      <<"cleanup", gpio_pin>>>>]
    ELSE [pwm |-> p, calls |-> <<>>]

\* the loop of run() from the i-th command on, self.pwm being p after calls
RECURSIVE RunCommands(_, _, _)
RunCommands(i, p, calls) ==
    IF i > Len(commands)
    THEN [pwm |-> p, calls |-> calls]
    ELSE LET step == SetAngle(p, commands[i])
         IN  RunCommands(i + 1, step.pwm, calls \o step.calls)

\* run(): every command, then stop()
ServoRun ==
    LET loop == RunCommands(1, pwm, <<>>)
        end  == Stop(loop.pwm)
    IN  /\ runs # NullRef
        /\ runs < MaxRuns
        /\ runs' = runs + 1
        /\ pwm' = end.pwm
        /\ run_calls' = loop.calls \o end.calls
        /\ gpio_calls' = gpio_calls \o loop.calls \o end.calls
        /\ UNCHANGED <<commands, servoRest>>

ServoNext ==
    \/ \E n \in 0..MaxCommands : \E config \in [1..n -> ConfigCommands] :
          ServoMotorNew(config)
    \/ ServoRun

(* ----------------------------- CropRectangle --------------------------- *)
\* what the runs of CropRectangle leave alone
cropboxRest == <<now, blobVars, circleVars, ctlVars, sigilVars, streamVars,
                 detVars, spellSigilVars, cropVars, looperVars, cameraVars,
                 effectVars, containerVars, servoVars>>

\* CropRectangle.__init__: the four fields are False, which compares and
\* tests as 0
CropboxInit ==
    /\ cropbox = [top |-> 0, bottom |-> 0, left |-> 0, right |-> 0]
    /\ cropbox_updated = FALSE

\* int(v) if (v < field or not field and v >= 0) else field
UpdateLow(field, v) ==
    IF v < field \/ (field = 0 /\ v >= 0) THEN v ELSE field

\* int(v) if (v > field or not field) else field
UpdateHigh(field, v) ==
    IF v > field \/ field = 0 THEN v ELSE field

\* CropRectangle.update(top, left, right, bottom)
CropUpdate(t, l, r, b) ==
    /\ cropbox' = [top    |-> UpdateLow(cropbox.top, t),
                   left   |-> UpdateLow(cropbox.left, l),
                   right  |-> UpdateHigh(cropbox.right, r),
                   bottom |-> UpdateHigh(cropbox.bottom, b)]
    /\ cropbox_updated' = TRUE
    /\ UNCHANGED cropboxRest

CropboxNext ==
    \E t, l, r, b \in CropCoordinates : CropUpdate(t, l, r, b)

(* --------------------------- specifications ---------------------------- *)
Init ==
    /\ now = 0
    /\ BlobInit
    /\ CircleInit
    /\ CtlInit
    /\ SigilInit
    /\ StreamInit
    /\ SpellSigilInit
    /\ SpellImageInit
    /\ LooperInit
    /\ CameraInit
    /\ EffectInit
    /\ ContainerInit
    /\ ServoInit
    /\ CropboxInit

\* calls on a blob detector, in any order
SpecBlob == Init /\ [][BlobNext]_vars

\* the controller's pipeline thread driving the circles detector
SpecCtl == Init /\ [][CtlNext]_vars

\* _process_sigil on every prediction map
SpecSigil == Init /\ [][SigilNext]_vars

\* the same calls made on a blob detector and on a circles detector
SpecDetectors == Init /\ [][DetNext]_vars

\* add and get_box calls on a SpellSigil
SpecSpellSigil == Init /\ [][SpellSigilNext]_vars

\* get_a_spell_maybe of the circles and fast detectors on every trace
SpecSpellImage == Init /\ [][SpellImageNext]_vars

\* read() calls on a VideoLooper
SpecLooper == Init /\ [][LooperNext]_vars

\* the capture thread of a PiCameraCV and a thread calling read()
SpecCamera == Init /\ [][CameraNext]_vars

\* append, del and run() calls on an EffectContainer
SpecEffects == Init /\ [][EffectNext]_vars

\* calls on a SpellsContainer as time passes
SpecContainer == Init /\ [][ContainerNext]_vars

\* a ServoMotor built from a configuration and run
SpecServo == Init /\ [][ServoNext]_vars

\* update calls on a CropRectangle
SpecCropbox == Init /\ [][CropboxNext]_vars

\* the pipeline thread publishing its images while the two streaming
\* generators run
SpecStream == Init /\ [][StreamNext]_vars

(* ------------------------- blob detector claims ------------------------ *)
\* the trace state of the blob detector that a reset clears
BlobTraceEmpty ==
    /\ wand_tip_movement = <<>>
    /\ previous_wand_tip = None
    /\ blob_tracing_frame = {}

\* C1: after any sequence of detect_wand and reset calls, every entry still in
\* wand_tip_movement is at most max_trace_duration older than the most recent
\* detect_wand call.
C1_StalenessInvariant ==
    blob_call.op = "detect_wand" =>
        \A i \in 1..Len(wand_tip_movement) :
            blob_call.time - wand_tip_movement[i][2] <= max_trace_duration

\* C5: a detect_wand call on a frame without keypoint clears the trace when more
\* than max_trace_duration has passed since the last frame that showed a
\* keypoint, and otherwise leaves buffer, previous point and mask unchanged.
C5_DropoutClearsOnlyAfterWindow ==
    [][BlobDetectNothing =>
        IF now - last_keypoint_time > max_trace_duration
        THEN /\ wand_tip_movement' = <<>>
             /\ previous_wand_tip' = None
             /\ blob_tracing_frame' = {}
        ELSE /\ wand_tip_movement' = wand_tip_movement
             /\ previous_wand_tip' = previous_wand_tip
             /\ blob_tracing_frame' = blob_tracing_frame]_vars

\* C5 witness: a no-keypoint frame has just cleared a trace that held a point
\* and a drawn segment's start.
C5_Witness ==
    /\ blob_call.op = "detect_wand"
    /\ blob_call.outcome = "timeout_reset"
    /\ blob_call.prev # None
    /\ blob_call.elapsed > max_trace_duration
    /\ BlobTraceEmpty

\* C7: a candidate with a previous point is rejected exactly when its speed is
\* strictly greater than the maximum trace speed (stated for elapsed > 0).
C7_RejectedIffFaster ==
    (/\ blob_call.op = "detect_wand"
     /\ blob_call.keypoint # None
     /\ blob_call.prev # None
     /\ blob_call.elapsed > 0)
    => (blob_call.outcome = "rejected"
        <=> Dist2(blob_call.prev, blob_call.keypoint)
              > (2 * max_trace_speed * blob_call.elapsed)
                * (2 * max_trace_speed * blob_call.elapsed))

\* C8: every segment drawn onto the tracing frame starts at the previously
\* accepted point, the newest entry of wand_tip_movement before the call.
\* (Left aside: a segment drawn right after a rejection at a zero elapsed time
\* or at a speed not above the maximum.)
C8_SegmentsStartAtAcceptedPoint ==
    [][\/ /\ blob_call.outcome = "rejected"
          /\ Dist2(blob_call.prev, blob_call.keypoint)
                <= (2 * max_trace_speed * blob_call.elapsed)
                   * (2 * max_trace_speed * blob_call.elapsed)
       \/ blob_call.outcome = "rejected" /\ blob_call.elapsed = 0
       \/ \A s \in blob_tracing_frame' \ blob_tracing_frame :
             /\ wand_tip_movement # <<>>
             /\ s[1] = PxPoint(wand_tip_movement[Len(wand_tip_movement)][1])]_vars

\* C28: every segment on the blob detector's tracing mask has both endpoints
\* among the points currently buffered in wand_tip_movement.
C28_MaskShowsOnlyBufferedTrace ==
    \A s \in blob_tracing_frame :
        \A e \in {s[1], s[2]} :
            \E i \in 1..Len(wand_tip_movement) :
                PxPoint(wand_tip_movement[i][1]) = e

(* ---------------------- circles detector claims ------------------------ *)
\* C2: len(tracePoints) never exceeds POINTS_BUFFER_SIZE.
C2_BoundedBuffer == Len(tracePoints) <= POINTS_BUFFER_SIZE

\* a step in which the pipeline thread runs get_a_spell_maybe
GetSpellStep == pc = "get_spell" /\ pc' # "get_spell"

\* C4, as stated: the trace is reported valid exactly when len(tracePoints) >=
\* POINTS_BUFFER_SIZE - 5, or less than 2 s have passed since the trace started
\* and len(tracePoints) > POINTS_BUFFER_SIZE / 3.
C4_ValidIffLongOrYoung ==
    [][GetSpellStep =>
        (maybe_a_spell' # {}
         <=> \/ Len(tracePoints) >= POINTS_BUFFER_SIZE - 5
             \/ /\ now - trace_start_time < max_time
                /\ Len(tracePoints) > POINTS_BUFFER_SIZE \div 3)]_vars

\* C4, amended: the trace is reported valid exactly when the last frame given
\* to detect_wand showed no keypoint and either len(tracePoints) >=
\* POINTS_BUFFER_SIZE - 5, or less than 2 s have passed since the last accepted
\* keypoint and len(tracePoints) > POINTS_BUFFER_SIZE // 3.
C4_ValidIffWandGoneAndLongOrRecent ==
    [][GetSpellStep =>
        (maybe_a_spell' # {}
         <=> /\ blobKeypoints = <<>>
             /\ \/ Len(tracePoints) >= POINTS_BUFFER_SIZE - 5
                \/ /\ now - last_keypoint_int_time < max_time
                   /\ Len(tracePoints) > POINTS_BUFFER_SIZE \div 3)]_vars

\* C4 witness: a sigil was returned for a trace of at least POINTS_BUFFER_SIZE - 5
\* points whose last point is older than the 2 s window.
C4_Witness ==
    /\ pc = "sigil"
    /\ maybe_a_spell # {}
    /\ blobKeypoints = <<>>
    /\ Len(tracePoints) >= POINTS_BUFFER_SIZE - 5
    /\ now - last_keypoint_int_time >= max_time

\* C6: in the controller loop, a frame without detection that comes less than
\* 2 s after the last accepted point leaves tracePoints and the mask unchanged.
C6_BriefDropoutKeepsTrace ==
    [][(/\ GetSpellStep
        /\ blobKeypoints = <<>>
        /\ tracePoints # <<>>
        /\ now - last_keypoint_int_time < max_time)
       => /\ tracePoints' = tracePoints
          /\ wand_move_tracing_frame' = wand_move_tracing_frame]_vars

\* C25: a get_a_spell_maybe() call of the circles detector leaves tracePoints
\* and the tracing mask as they were, for a valid trace and for an invalid one.
C25_ExtractionOnlyReads ==
    [][GetSpellStep
       => /\ tracePoints' = tracePoints
          /\ wand_move_tracing_frame' = wand_move_tracing_frame]_vars

(* --------------------------- controller claims ------------------------- *)
\* C3: whenever a sigil was classified, the detector is reset before the run
\* loop reads the next frame, for a spell label and for the no-spell label.
C3_ResetBeforeNextFrame ==
    pc \in {"sleep", "loop"} => dispatch # "classified"

\* C3 witness: a sigil classified as a registered spell was dispatched and the
\* detector has been reset, before the loop's sleep.
C3_Witness ==
    /\ pc = "sleep"
    /\ spell_name \in Spells
    /\ dispatch = "reset"
    /\ tracePoints = <<>>
    /\ wand_move_tracing_frame = {}

\* C10: a selected label without a registered effect is ignored: no exception
\* leaves the dispatch, the detector is reset and the run loop goes on.
C10_UnknownLabelIgnored ==
    (/\ spell_name \notin Spells \cup {NO_SPELL_LABEL, None}
     /\ pc # "accio")
    => /\ raised = "none"
       /\ dispatch = "reset"
       /\ pc \in {"reset", "sleep"}

\* C11: when spell_net.classify raises while a sigil is processed, the
\* controller still resets the wand detector, no exception leaves run() and the
\* run loop keeps processing frames.
C11_ClassifierErrorRecovered ==
    dispatch = "classify_raised" =>
        /\ raised = "none"
        /\ pc # "done"
        /\ video_end_calls = 0
        /\ tracePoints = <<>>
        /\ wand_move_tracing_frame = {}

\* C12: while the effect sequence of a dispatched spell is running, the
\* pipeline thread is not held inside the effect call: it is at a position of
\* its frame loop.
C12_EffectDoesNotBlockLoop ==
    effect_running => pc \in {"loop", "get_spell", "sigil", "accio", "reset", "sleep"}

\* C13: once stop_event is set, the pipeline thread does not go on retrying
\* reads of a failing video source (at most the read in progress fails), and
\* video.end() is called once when the thread has left its loop, never twice.
C13_StopEndsLoop ==
    /\ stop_event => stopped_retries <= 1
    /\ video_end_calls <= 1
    /\ pc = "done" => video_end_calls = 1

\* C29: when _accio_spell is called again, the detector has been reset since
\* the call before and at least 7 points have been accepted into tracePoints
\* since then.
C29_DispatchedAtMostOnce ==
    (pc = "accio" /\ new_points # NullRef)
        => /\ reset_done
           /\ new_points >= POINTS_BUFFER_SIZE \div 3 + 1

\* C29 witness: _accio_spell is about to be called a second time, on a trace of
\* 7 points that were all accepted after the reset of the first call.
C29_Witness ==
    /\ pc = "accio"
    /\ new_points = 7
    /\ reset_done
    /\ Len(tracePoints) = 7

(* --------------------------- dispatcher claims ------------------------- *)
\* C9: _process_sigil returns the no-spell label exactly when no prediction
\* reaches the threshold; otherwise the label it returns has the greatest
\* probability of all, and no label before it in the map has that probability.
C9_ThresholdThenFirstMaximum ==
    result # None =>
        /\ result = NO_SPELL_LABEL
             <=> \A i \in 1..Len(predictions) : predictions[i][2] < spell_threshold
        /\ result # NO_SPELL_LABEL =>
             \E i \in 1..Len(predictions) :
                /\ predictions[i][1] = result
                /\ predictions[i][2] >= spell_threshold
                /\ \A j \in 1..Len(predictions) : predictions[j][2] <= predictions[i][2]
                /\ \A j \in 1..(i - 1) : predictions[j][2] < predictions[i][2]

\* C9 witness: two labels share the greatest probability, which is exactly the
\* threshold, and the first of them was returned.
C9_Witness ==
    /\ result # None
    /\ \E i, j \in 1..Len(predictions) :
          /\ i < j
          /\ predictions[i][2] = spell_threshold
          /\ predictions[j][2] = spell_threshold
          /\ \A k \in 1..Len(predictions) : predictions[k][2] <= spell_threshold
          /\ \A k \in 1..(i - 1) : predictions[k][2] < spell_threshold
          /\ result = predictions[i][1]

(* ------------------------ claims on both detectors -------------------- *)
\* the trace state of the circles detector that a reset clears
CircleTraceEmpty ==
    /\ tracePoints = <<>>
    /\ wand_move_tracing_frame = {}

\* C15: reset() on a detector whose trace is already empty changes nothing of
\* the trace (buffer length 0, mask all-zero), and after any reset() the trace
\* is the empty one, so that a second reset() in a row leaves what the first
\* left (blob and circles detectors).
C15_ResetIdempotent ==
    [][DetReset =>
        /\ BlobTraceEmpty'
        /\ CircleTraceEmpty'
        /\ BlobTraceEmpty =>
             /\ wand_tip_movement' = wand_tip_movement
             /\ previous_wand_tip' = previous_wand_tip
             /\ blob_tracing_frame' = blob_tracing_frame
        /\ CircleTraceEmpty =>
             /\ tracePoints' = tracePoints
             /\ wand_move_tracing_frame' = wand_move_tracing_frame]_vars

\* C15 witness: reset() was called twice in a row, the second time on
\* detectors whose traces were already empty.
C15_Witness ==
    /\ circle_call.op = "reset"
    /\ circle_call.before = "reset"
    /\ circle_call.was_empty
    /\ blob_call.op = "reset"
    /\ blob_call.prev = None
    /\ BlobTraceEmpty
    /\ CircleTraceEmpty

\* C16: detect_wand does not fail with a division by zero when a keypoint is
\* detected at the timestamp of the previous keypoint (elapsed = 0): the call
\* returns normally.
C16_NoDivisionByZero ==
    (circle_call.op = "detect_wand" /\ circle_call.elapsed = 0)
        => circle_call.outcome = "returned"

\* C26: the wand-detected sound cue is played by a detect_wand call of the
\* circles detector only when that call's detection turned an empty trace into
\* a non-empty one, never on a frame that leaves the trace empty.
C26_CueOnlyOnFirstDetection ==
    (circle_call.op = "detect_wand" /\ circle_call.cue)
        => (circle_call.was_empty /\ tracePoints # <<>>)

(* --------------------------- SpellSigil claims ------------------------- *)
\* C17: every coordinate SpellSigil.add stores in its history lies in the
\* frame: 0 <= x <= frame width and 0 <= y <= frame height.
C17_StoredCoordinatesInFrame ==
    \A k \in 1..Len(history) :
        /\ \A i \in {1, 3} : 0 <= history[k][i] /\ history[k][i] <= frame_width
        /\ \A i \in {2, 4} : 0 <= history[k][i] /\ history[k][i] <= frame_height

\* C18: for a non-empty history get_box returns (L - m, T - m, R + m, B + m),
\* L and T the least left and top, R and B the greatest right and bottom, m the
\* margin, where left and top are never negative (stated for histories with
\* L <= R and T <= B).
C18_BoxIsExtremesWithMargin ==
    (/\ box # NoBox
     /\ history # <<>>
     /\ ColumnMin(history, 1) <= ColumnMax(history, 3)
     /\ ColumnMin(history, 2) <= ColumnMax(history, 4))
    => /\ box[1] >= 0
       /\ box[2] >= 0
       /\ ColumnMin(history, 1) - pixels_margin >= 0
            => box[1] = ColumnMin(history, 1) - pixels_margin
       /\ ColumnMin(history, 2) - pixels_margin >= 0
            => box[2] = ColumnMin(history, 2) - pixels_margin
       /\ box[3] = ColumnMax(history, 3) + pixels_margin
       /\ box[4] = ColumnMax(history, 4) + pixels_margin

\* C30: the box get_box returns for a non-empty history (whose coordinates are
\* never negative) contains both endpoints of every line of the history,
\* whatever the direction of the line:
\* left <= x1, x2 <= right and top <= y1, y2 <= bottom.
C30_BoxContainsEveryLine ==
    (box # NoBox /\ history # <<>>) =>
        \A k \in 1..Len(history) :
            /\ \A i \in {1, 3} : box[1] <= history[k][i] /\ history[k][i] <= box[3]
            /\ \A i \in {2, 4} : box[2] <= history[k][i] /\ history[k][i] <= box[4]

(* ------------------------- sigil image claims -------------------------- *)
\* C19: get_a_spell_maybe of the circles and fast detectors returns an image
\* of exactly 224 x 224, when the trace is valid and when it is not.
C19_SpellImageIs224Square ==
    spell_image.detector # "none" => spell_image.shape = <<224, 224>>

(* --------------------------- VideoLooper claims ------------------------ *)
\* C20: on a file of N >= 1 frames the successive read() calls all succeed and
\* deliver the frames 0, 1, ..., N-1 and then again from 0: the k-th call
\* delivers frame (k - 1) mod N.
C20_FramesInFileOrder ==
    reads > 0 =>
        /\ read_result.ret
        /\ read_result.frame = (reads - 1) % total_frames

(* --------------------------- PiCameraCV claims ------------------------- *)
\* C21: a read() call returns (True, f) with f the last frame the capture
\* thread has produced (handed to the queue) before the call, or (False, None).
C21_ReadReturnsLatestFrame ==
    cam_read.calls > 0 =>
        IF cam_read.ret
        THEN cam_read.frame = cam_read.latest
        ELSE cam_read.frame = NullRef

(* ------------------------- EffectContainer claims ---------------------- *)
\* C22: run() calls run() on every queued effect once, in queue order, also
\* after one of them raised, and returns True exactly when none of them raised
\* (True on an empty queue).
C22_RunsAllInOrder ==
    effect_run.done =>
        /\ effect_run.calls = effect_run.ran
        /\ effect_run.ret =
               (\A i \in 1..Len(effect_run.ran) : ~EffectRaises(effect_run.ran[i]))

\* C22 witness: a run() on three effects, the first of which raised: the two
\* after it were called and the result is False.
C22_Witness ==
    /\ effect_run.done
    /\ Len(effect_run.ran) = 3
    /\ EffectRaises(effect_run.ran[1])
    /\ ~EffectRaises(effect_run.ran[2])
    /\ Len(effect_run.calls) = 3
    /\ ~effect_run.ret

(* ------------------------- SpellsContainer claims ---------------------- *)
\* the container was not updated since creation or the last reset, or more
\* than expiration_time seconds have passed since the last __setitem__
NotUpdatedOrExpired ==
    \/ ~updated_since_reset
    \/ now - last_setitem_time > expiration_time

\* C23 (a step that leaves the clock alone and ends with the call record of
\* is_stale or auto_clear is that call): is_stale() returns True exactly when the container was not updated
\* since creation or the last reset or its last __setitem__ is more than
\* expiration_time seconds old; auto_clear() returns True and empties the
\* container exactly then, and else returns False and changes nothing.
C23_StaleIffNotUpdatedOrExpired ==
    [][/\ (now' = now /\ container_call'.op = "is_stale")
          => container_call'.ret = NotUpdatedOrExpired
       /\ (now' = now /\ container_call'.op = "auto_clear")
          => /\ container_call'.ret = NotUpdatedOrExpired
             /\ sigils' = IF NotUpdatedOrExpired THEN EmptyDict ELSE sigils
             /\ ~NotUpdatedOrExpired => last_update_time' = last_update_time]_vars

\* C23 witness: auto_clear() has just emptied a container whose last
\* __setitem__ was more than expiration_time seconds ago.
C23_Witness ==
    /\ container_call.op = "auto_clear"
    /\ container_call.ret
    /\ sigils = EmptyDict
    /\ now - last_setitem_time = expiration_time + 1
    /\ last_setitem_time > 0

(* --------------------------- ServoMotor claims ------------------------- *)
\* the calls of a run() that initialises, applies the angles in order and
\* cleans up: setmode, setup, PWM, start(0), one ChangeDutyCycle per command,
\* ChangeDutyCycle(0), stop, cleanup(pin)
FullRunCalls ==
    <<<<"setmode", BCM>>, <<"setup", gpio_pin>>, <<"PWM", gpio_pin>>, <<"start", 0>>>>
    \o [i \in 1..Len(commands) |-> <<"ChangeDutyCycle", DutyCycle(commands[i])>>]
    \o <<<<"ChangeDutyCycle", 0>>, <<"stop", 0>>, <<"cleanup", gpio_pin>>>>

C27_BoxOnlyExpands ==
    [][/\ cropbox'.left >= 0
       /\ cropbox'.top >= 0
       /\ cropbox_updated
          => /\ cropbox'.left <= cropbox.left
             /\ cropbox'.top <= cropbox.top
             /\ cropbox'.right >= cropbox.right
             /\ cropbox'.bottom >= cropbox.bottom]_vars

(* ---------------------------- streaming claims ------------------------ *)
\* C14: the object a generator reads through latest_wand_frame or spell_frame
\* is never None when it is encoded, and no object is written by the pipeline
\* thread while one of the two fields holds it.
C14_OnlyPublishedSnapshots ==
    /\ ~published_mutated
    /\ ~video_gen.none_seen
    /\ ~spell_gen.none_seen
    /\ latest_wand_frame # NullRef
    /\ spell_frame # NullRef

\* C14 witness: both generators have encoded an object the pipeline thread
\* produced, the frame one after its debug text was written into it, while the
\* pipeline thread is writing into its next frame.
C14_Witness ==
    /\ video_gen.encoded \in DOMAIN heap \ {0, 1}
    /\ heap[video_gen.encoded] > 0
    /\ spell_gen.encoded \in DOMAIN heap \ {0, 1}
    /\ stream_pc = "assign"
    /\ heap[combined_frame] > 0

====
